---- MODULE Spec2Model ----
(***************************************************************************)
(* The two assists of toggle_async_sugar.rs, sugar_impl_future_into_async  *)
(* and desugar_async_into_impl_future, as edits of a source buffer.        *)
(*                                                                         *)
(* The buffer is a sequence of lexemes (a lexeme is one token's text, a    *)
(* whitespace run is a run of one-blank lexemes), offsets count lexemes    *)
(* from 0 as TextSize counts bytes, and a range is [s, e).  The buffer     *)
(* holds optional items before the function (a `use` of the core Future    *)
(* trait, or a local look-alike trait), the function, and a final newline. *)
(* A function is made of the parts of a function signature: visibility,    *)
(* const, async, unsafe, ABI, `fn`, name, generic parameters, parameters,  *)
(* return type, where clause, body or `;`, with whitespace and comment     *)
(* tokens between them.  Attributes and doc comments are not modelled.     *)
(***************************************************************************)
EXTENDS Integers, Sequences, FiniteSets, TLC

\* ------------------------------------------------------------------------
\* Bounds of the model.

\* Longest whitespace run of a generated function.
MaxWs == 2

\* Number of assist invocations in one behaviour.
MaxOps == 2

\* ------------------------------------------------------------------------
\* Text ranges and lexemes.

None == [s |-> -1, e |-> -1]

Has(r) == r.s >= 0

Rng(a, b) == [s |-> a, e |-> b]

At(t, p) == IF p >= 0 /\ p < Len(t) THEN t[p + 1] ELSE "<eof>"

Slice(t, a, b) == SubSeq(t, a + 1, b)

IsWs(u) == u \in {" ", "\n"}

\* Lexemes that are a trait path (a path type without its generic arguments).
PathUnits == {"Future", "core::future::Future", "Send", "Sync", "Debug"}

\* Lexemes that are a whole type.
PlainTypeUnits == {"usize", "T"}

RECURSIVE SkipWs(_, _)
SkipWs(t, p) == IF IsWs(At(t, p)) THEN SkipWs(t, p + 1) ELSE p

\* The offset after the bracket that closes the one opened before offset p.
RECURSIVE CloseOf(_, _, _, _, _)
CloseOf(t, p, depth, open, close) ==
    IF p >= Len(t) THEN p
    ELSE IF At(t, p) = close
         THEN IF depth = 1 THEN p + 1 ELSE CloseOf(t, p + 1, depth - 1, open, close)
    ELSE IF At(t, p) = open THEN CloseOf(t, p + 1, depth + 1, open, close)
    ELSE CloseOf(t, p + 1, depth, open, close)

\* ------------------------------------------------------------------------
\* The syntax tree: types.

\* End of a path type at p: the path and the generic arguments of its last segment.
PathEnd(t, p) == IF At(t, p + 1) = "<" THEN CloseOf(t, p + 2, 1, "<", ">") ELSE p + 1

\* The type bound at p: a lifetime, a path type, another type (parenthesised), or none.
BoundAt(t, p) ==
    IF At(t, p) = "'a" THEN [k |-> "lifetime", name |-> "", s |-> p, e |-> p + 1]
    ELSE IF At(t, p) \in PathUnits
         THEN [k |-> "path", name |-> At(t, p), s |-> p, e |-> PathEnd(t, p)]
    ELSE IF At(t, p) = "("
         THEN [k |-> "other", name |-> "", s |-> p, e |-> CloseOf(t, p + 1, 1, "(", ")")]
    ELSE [k |-> "none", name |-> "", s |-> p, e |-> p]

RECURSIVE BoundsFrom(_, _, _)
BoundsFrom(t, p, acc) ==
    LET b == BoundAt(t, p)
        q == SkipWs(t, b.e)
    IN  IF b.k = "none" THEN acc
        ELSE IF At(t, q) = "+" THEN BoundsFrom(t, SkipWs(t, q + 1), Append(acc, b))
        ELSE Append(acc, b)

\* The bounds of the impl-trait type whose `impl` is at offset p.
Bounds(t, p) == BoundsFrom(t, SkipWs(t, p + 1), <<>>)

ImplEnd(t, p) ==
    LET bs == Bounds(t, p)
    IN  IF bs = <<>> THEN p + 1 ELSE bs[Len(bs)].e

\* End of the type that starts at p; p itself when no type starts there.
TypeEnd(t, p) ==
    IF At(t, p) \in PlainTypeUnits THEN p + 1
    ELSE IF At(t, p) = "(" THEN CloseOf(t, p + 1, 1, "(", ")")
    ELSE IF At(t, p) = "impl" THEN ImplEnd(t, p)
    ELSE IF At(t, p) \in PathUnits THEN PathEnd(t, p)
    ELSE p

\* A tuple type without fields: `()`, `( )`.
IsEmptyTuple(t, ty) ==
    /\ Has(ty)
    /\ At(t, ty.s) = "("
    /\ ty.e = CloseOf(t, ty.s + 1, 1, "(", ")")
    /\ At(t, ty.e - 1) = ")"
    /\ \A i \in (ty.s + 1)..(ty.e - 2) : IsWs(At(t, i))

\* The generic argument list of the last segment of a path bound.
GenericArgList(t, b) == IF At(t, b.s + 1) = "<" THEN Rng(b.s + 1, b.e) ELSE None

\* The offset of the next `,` outside brackets, or stop.
RECURSIVE ArgEnd(_, _, _, _)
ArgEnd(t, p, stop, depth) ==
    IF p >= stop THEN stop
    ELSE IF At(t, p) = "," /\ depth = 0 THEN p
    ELSE IF At(t, p) \in {"<", "("} THEN ArgEnd(t, p + 1, stop, depth + 1)
    ELSE IF At(t, p) \in {">", ")"} THEN ArgEnd(t, p + 1, stop, depth - 1)
    ELSE ArgEnd(t, p + 1, stop, depth)

\* The generic argument at p: its kind, its name and type when it is a binding.
ArgAt(t, p) ==
    LET eq == SkipWs(t, p + 1)
        ts == SkipWs(t, eq + 1)
        te == TypeEnd(t, ts)
    IN  IF At(t, p) = "'a" THEN [k |-> "LIFETIME_ARG", name |-> "", ty |-> None]
        ELSE IF At(t, p) = "1" THEN [k |-> "CONST_ARG", name |-> "", ty |-> None]
        ELSE IF At(t, p) \in {"Output", "Item"} /\ At(t, eq) = "="
             THEN [k |-> "ASSOC_TYPE_ARG", name |-> At(t, p),
                   ty |-> IF te > ts THEN Rng(ts, te) ELSE None]
        ELSE [k |-> "TYPE_ARG", name |-> "", ty |-> None]

RECURSIVE ArgsFrom(_, _, _, _)
ArgsFrom(t, p, stop, acc) ==
    LET q == SkipWs(t, p)
        c == ArgEnd(t, q, stop, 0)
    IN  IF q >= stop THEN acc
        ELSE ArgsFrom(t, IF c < stop THEN c + 1 ELSE stop, stop, Append(acc, ArgAt(t, q)))

\* The arguments of a generic argument list `< ... >`.
GenericArgs(t, gal) == ArgsFrom(t, gal.s + 1, gal.e - 1, <<>>)

\* ------------------------------------------------------------------------
\* The syntax tree: the function and its children.

ItemUnits == {"use core::future::Future;", "trait Future { type Output; }"}

\* Start of the function node: after the items and whitespace before it.
RECURSIVE FnStart(_, _)
FnStart(t, p) ==
    IF p < Len(t) /\ (IsWs(At(t, p)) \/ At(t, p) \in ItemUnits) THEN FnStart(t, p + 1) ELSE p

ParamListEnd(t, p) ==
    IF At(t, p + 1) = ")" THEN p + 2
    ELSE IF At(t, p + 1) = "x: u8"
         THEN IF At(t, p + 2) = ")" THEN p + 3 ELSE p + 2
    ELSE p + 1

RetTypeEnd(t, p) ==
    LET q == SkipWs(t, p + 1)
        te == TypeEnd(t, q)
    IN  IF te > q THEN te ELSE p + 1

TokenKind(u) ==
    CASE u = "/*c*/" -> "COMMENT"
      [] u = "pub(crate)" -> "VISIBILITY"
      [] u = "const" -> "CONST_KW"
      [] u = "async" -> "ASYNC_KW"
      [] u = "unsafe" -> "UNSAFE_KW"
      [] u = "extern \"C\"" -> "ABI"
      [] u = "fn" -> "FN_KW"
      [] u = "foo" -> "NAME"
      [] u = "<T>" -> "GENERIC_PARAM_LIST"
      [] u = "where T: Sized" -> "WHERE_CLAUSE"
      [] u = "{}" -> "BLOCK_EXPR"
      [] u = ";" -> "SEMICOLON"
      [] OTHER -> "ERROR"

\* The child of the function node that starts at p.
ElemAt(t, p) ==
    IF IsWs(At(t, p)) THEN [k |-> "WHITESPACE", s |-> p, e |-> SkipWs(t, p)]
    ELSE IF At(t, p) = "(" THEN [k |-> "PARAM_LIST", s |-> p, e |-> ParamListEnd(t, p)]
    ELSE IF At(t, p) = "->" THEN [k |-> "RET_TYPE", s |-> p, e |-> RetTypeEnd(t, p)]
    ELSE [k |-> TokenKind(At(t, p)), s |-> p, e |-> p + 1]

RECURSIVE Scan(_, _, _)
Scan(t, p, acc) ==
    LET el == ElemAt(t, p)
    IN  IF p >= Len(t) THEN acc
        ELSE IF el.k \in {"BLOCK_EXPR", "SEMICOLON"} THEN Append(acc, el)
        ELSE Scan(t, el.e, Append(acc, el))

\* The children (nodes and tokens) of the function node, in order.
Children(t) == Scan(t, FnStart(t, 0), <<>>)

IsKind(el, k) == el.k = k

\* Index of the first child of kind k, 0 if there is none.
IndexOf(ch, k) ==
    IF \E i \in 1..Len(ch) : ch[i].k = k
    THEN CHOOSE i \in 1..Len(ch) : ch[i].k = k /\ \A j \in 1..(i - 1) : ch[j].k # k
    ELSE 0

\* Range of the first child of kind k, None if there is none.
Child(ch, k) == IF IndexOf(ch, k) = 0 THEN None ELSE Rng(ch[IndexOf(ch, k)].s, ch[IndexOf(ch, k)].e)

\* Range of the function node.
FnRange(t) ==
    LET ch == Children(t)
    IN  IF ch = <<>> THEN None ELSE Rng(ch[1].s, ch[Len(ch)].e)

\* The type of a RET_TYPE node.
RetTy(t, ret) ==
    LET q == SkipWs(t, ret.s + 1)
    IN  IF Has(ret) /\ TypeEnd(t, q) > q /\ q < ret.e THEN Rng(q, TypeEnd(t, q)) ELSE None

\* The closing parenthesis of a PARAM_LIST node.
RParen(t, pl) == IF Has(pl) /\ At(t, pl.e - 1) = ")" THEN Rng(pl.e - 1, pl.e) ELSE None

\* ------------------------------------------------------------------------
\* Name resolution.

Unresolved == "unresolved"

CoreFuture == "core::future::Future"

LocalFuture == "crate::Future"

HasItem(t, u) == \E i \in 1..Len(t) : t[i] = u

\* The trait a path resolves to in the scope of the function.
resolve_trait(t, minicore, path) ==
    CASE path = "core::future::Future" -> IF minicore THEN CoreFuture ELSE Unresolved
      [] path = "Future" ->
            IF HasItem(t, "trait Future { type Output; }") THEN LocalFuture
            ELSE IF HasItem(t, "use core::future::Future;") /\ minicore THEN CoreFuture
            ELSE Unresolved
      [] path = "Send" -> IF minicore THEN "core::marker::Send" ELSE Unresolved
      [] path = "Sync" -> IF minicore THEN "core::marker::Sync" ELSE Unresolved
      [] OTHER -> Unresolved

\* The core Future trait of the function's crate, if the crate has one.
core_future_Future(minicore) == IF minicore THEN CoreFuture ELSE Unresolved

\* ------------------------------------------------------------------------
\* Edit plans.

NoPlan == [ok |-> FALSE, edits |-> <<>>]

Plan(es) == [ok |-> TRUE, edits |-> es]

Delete(r) == [op |-> "delete", s |-> r.s, e |-> r.e, txt |-> <<>>]

Replace(r, txt) == [op |-> "replace", s |-> r.s, e |-> r.e, txt |-> txt]

Insert(p, txt) == [op |-> "insert", s |-> p, e |-> p, txt |-> txt]

ApplyOne(t, ed) == Slice(t, 0, ed.s) \o ed.txt \o Slice(t, ed.e, Len(t))

Later(a, b) == a.s > b.s \/ (a.s = b.s /\ a.e >= b.e)

\* Index of the edit that lies last in the text.
LastEdit(es) == CHOOSE i \in 1..Len(es) :
    \A j \in 1..Len(es) : Later(es[i], es[j]) /\ (Later(es[j], es[i]) => i <= j)

Without(es, i) == SubSeq(es, 1, i - 1) \o SubSeq(es, i + 1, Len(es))

\* The edits of a plan applied as one transaction: all ranges are ranges of the
\* text before the plan, so the edits are applied from the end of the text.
RECURSIVE ApplyPlan(_, _)
ApplyPlan(t, es) ==
    IF es = <<>> THEN t
    ELSE ApplyPlan(ApplyOne(t, es[LastEdit(es)]), Without(es, LastEdit(es)))

\* ------------------------------------------------------------------------
\* The assists.

\* Mutant: the whitespace after the node or token is never found.
following_whitespace_none(ch, i) == None

\* The range of the whitespace token that is the next sibling of child i.
following_whitespace(ch, i) ==
    IF i >= 1 /\ i < Len(ch) /\ ch[i + 1].k = "WHITESPACE"
    THEN Rng(ch[i + 1].s, ch[i + 1].e)
    ELSE None

IsAssocTypeArg(arg) == arg.k = "ASSOC_TYPE_ARG"

\* Mutant: the first binding among the generic arguments, wherever it stands.
unwrap_future_output_any_arg(t, path) ==
    LET assoc_list == GenericArgList(t, path)
        bindings == SelectSeq(GenericArgs(t, assoc_list), IsAssocTypeArg)
    IN  IF ~Has(assoc_list) THEN None
        ELSE IF bindings = <<>> THEN None
        ELSE bindings[1].ty

\* The type of the binding that is the first generic argument of the path.
unwrap_future_output(t, path) ==
    LET assoc_list == GenericArgList(t, path)
        args == GenericArgs(t, assoc_list)
    IN  IF ~Has(assoc_list) THEN None
        ELSE IF args = <<>> THEN None
        ELSE IF args[1].k = "ASSOC_TYPE_ARG" THEN args[1].ty
        ELSE None

IsFutureBound(b) == b.k = "path" /\ b.name \in {"Future", "core::future::Future"}

\* Mutant: the first bound named Future, whatever path bounds precede it.
main_trait_path_any_future(t, ty) ==
    LET paths == SelectSeq(Bounds(t, ty.s), IsFutureBound)
    IN  IF paths = <<>> THEN None ELSE Rng(paths[1].s, paths[1].e)

IsPathBound(b) == b.k = "path"

\* The first bound of the impl-trait type at ty that is a path type.
main_trait_path(t, ty) ==
    LET paths == SelectSeq(Bounds(t, ty.s), IsPathBound)
    IN  IF paths = <<>> THEN None ELSE Rng(paths[1].s, paths[1].e)

\* Mutant: async always goes first in the function.
place_for_async_at_start(t, ch) == Insert(FnRange(t).s, <<"async", " ">>)

\* Where the async keyword goes, and its text.
place_for_async(t, ch) ==
    LET vis == Child(ch, "VISIBILITY")
    IN  IF Has(vis) THEN Insert(vis.e, <<" ", "async">>)
        ELSE Insert(FnRange(t).s, <<"async", " ">>)

\* Mutant: the empty tuple is written as return type like any other type.
sugar_ret_type_edit_always_replace(t, ch, future_output) ==
    Replace(RetTy(t, Child(ch, "RET_TYPE")), Slice(t, future_output.s, future_output.e))

\* The edit of the return type, given the output type of the Future bound.
sugar_ret_type_edit(t, ch, future_output) ==
    LET ret_type == Child(ch, "RET_TYPE")
        whitespace_range == following_whitespace(ch, IndexOf(ch, "PARAM_LIST"))
    IN  IF IsEmptyTuple(t, future_output)
        THEN IF Has(whitespace_range)
             THEN Delete(Rng(whitespace_range.s, ret_type.e))
             ELSE Delete(ret_type)
        ELSE Replace(RetTy(t, ret_type), Slice(t, future_output.s, future_output.e))

\* Mutant: the gate without the test of const.
sugar_gate_without_const(ch) ==
    /\ ~Has(Child(ch, "ASYNC_KW"))
    /\ Has(Child(ch, "RET_TYPE"))

\* The qualifier and return-type gate: not async, a return type, not const.
sugar_gate(ch) ==
    /\ ~Has(Child(ch, "ASYNC_KW"))
    /\ Has(Child(ch, "RET_TYPE"))
    /\ ~Has(Child(ch, "CONST_KW"))

\* Mutant: the path is tested by its name.
is_named_future(t, minicore, path) == At(t, path.s) \in {"Future", "core::future::Future"}

\* The path resolves to the core Future trait of the function's crate.
is_core_future(t, minicore, path) ==
    /\ resolve_trait(t, minicore, At(t, path.s)) # Unresolved
    /\ core_future_Future(minicore) # Unresolved
    /\ resolve_trait(t, minicore, At(t, path.s)) = core_future_Future(minicore)

sugar_impl_future_into_async(t, minicore) ==
    LET ch == Children(t)
        ty == RetTy(t, Child(ch, "RET_TYPE"))
        main == main_trait_path(t, ty)
        future_output == unwrap_future_output(t, main)
    IN  IF ch = <<>> THEN NoPlan
        ELSE IF ~sugar_gate(ch) THEN NoPlan
        ELSE IF ~Has(ty) \/ At(t, ty.s) # "impl" THEN NoPlan
        ELSE IF ~Has(main) THEN NoPlan
        ELSE IF ~is_core_future(t, minicore, main) THEN NoPlan
        ELSE IF ~Has(future_output) THEN NoPlan
        ELSE Plan(<<sugar_ret_type_edit(t, ch, future_output), place_for_async(t, ch)>>)

\* The text that replaces the return type T: impl Future<Output = T>.
ImplFutureOf(ty_text) ==
    <<"impl", " ", "Future", "<", "Output", " ", "=", " ">> \o ty_text \o <<">">>

\* Mutant: the async keyword is removed, the whitespace after it is left.
desugar_async_edit_token_only(ch) == Delete(Child(ch, "ASYNC_KW"))

\* The edit that removes the async keyword and the whitespace after it.
desugar_async_edit(ch) ==
    LET async_token == Child(ch, "ASYNC_KW")
        whitespace_range == following_whitespace(ch, IndexOf(ch, "ASYNC_KW"))
    IN  IF Has(whitespace_range)
        THEN Delete(Rng(async_token.s, whitespace_range.e))
        ELSE Delete(async_token)

\* Mutant: a new return type is put where the parameter list starts.
desugar_ret_type_edit_at_l_paren(t, ch) ==
    LET ret_type == RetTy(t, Child(ch, "RET_TYPE"))
    IN  IF Has(Child(ch, "RET_TYPE"))
        THEN Replace(ret_type, ImplFutureOf(Slice(t, ret_type.s, ret_type.e)))
        ELSE Insert(Child(ch, "PARAM_LIST").s, <<" ", "->", " ">> \o ImplFutureOf(<<"(", ")">>))

\* The edit of the return type: wrap it, or add one after the parameter list.
desugar_ret_type_edit(t, ch) ==
    LET rparen == RParen(t, Child(ch, "PARAM_LIST"))
        ret_type == RetTy(t, Child(ch, "RET_TYPE"))
    IN  IF Has(Child(ch, "RET_TYPE"))
        THEN Replace(ret_type, ImplFutureOf(Slice(t, ret_type.s, ret_type.e)))
        ELSE Insert(rparen.e, <<" ", "->", " ">> \o ImplFutureOf(<<"(", ")">>))

desugar_async_into_impl_future(t) ==
    LET ch == Children(t)
        ret_type == Child(ch, "RET_TYPE")
    IN  IF ch = <<>> THEN NoPlan
        ELSE IF ~Has(Child(ch, "ASYNC_KW")) THEN NoPlan
        ELSE IF ~Has(RParen(t, Child(ch, "PARAM_LIST"))) THEN NoPlan
        ELSE IF Has(ret_type) /\ ~Has(RetTy(t, ret_type)) THEN NoPlan
        ELSE Plan(<<desugar_async_edit(ch), desugar_ret_type_edit(t, ch)>>)

\* ------------------------------------------------------------------------
\* The functions the assists are invoked on.

Spaces(n) == [i \in 1..n |-> " "]

WsRuns == {Spaces(n) : n \in 1..MaxWs}

VisForms == {<<>>} \cup {<<"pub(crate)">> \o w : w \in WsRuns}

ConstForms == {<<>>, <<"const", " ">>}

AsyncForms == {<<>>, <<"async", "/*c*/">>} \cup {<<"async">> \o w : w \in WsRuns}

ModForms == {<<>>, <<"unsafe", " ">>, <<"unsafe", " ", "extern \"C\"", " ">>}

QualsAll == {v \o c \o a \o m : v \in VisForms, c \in ConstForms, a \in AsyncForms, m \in ModForms}

QualsFew == {<<>>, <<"pub(crate)", " ">>, <<"async", " ">>, <<"const", " ">>, <<"unsafe", " ">>}

Core0 == <<"fn", " ", "foo", "(", ")">>

CoreForms == {Core0, <<"fn", " ", "foo", "<T>", "(", "x: u8", ")">>}

\* A parameter list that is not closed.
CoreUnclosed == <<"fn", " ", "foo", "(">>

\* What stands between the parameter list and the return type.
Gaps == {<<>>, <<"/*c*/", " ">>, <<" ", "/*c*/", " ">>} \cup WsRuns

OutTypes == {<<"(", ")">>, <<"(", " ", ")">>, <<"usize">>, <<"(", "usize", ")">>,
             <<"(", "usize", ",", " ", "usize", ")">>, <<"T">>}

Binding(name, ty) == <<name, " ", "=", " ">> \o ty

\* Generic argument lists of the main bound; <<>> is no list at all.
ArgForms ==
    {<<>>, <<"<", ">">>, <<"<", "Output", " ", "=", " ", ">">>,
     <<"<", "usize", ",", " ">> \o Binding("Output", <<"usize">>) \o <<">">>,
     <<"<", "'a", ",", " ">> \o Binding("Output", <<"usize">>) \o <<">">>,
     <<"<", "1", ",", " ">> \o Binding("Output", <<"usize">>) \o <<">">>,
     <<"<">> \o Binding("Output", <<"usize">>) \o <<",", " ", "usize", ">">>,
     <<"<">> \o Binding("Item", <<"usize">>) \o <<">">>}
    \cup {<<"<">> \o Binding("Output", ty) \o <<">">> : ty \in OutTypes}

OutputArgs == {<<"<">> \o Binding("Output", ty) \o <<">">> : ty \in {<<"(", ")">>, <<"usize">>}}

FuturePaths == {"Future", "core::future::Future"}

\* Bounds before the Future bound.
BoundPrefixes == {<<"'a", " ", "+", " ">>, <<"Send", " ", "+", " ">>, <<"Debug", " ", "+", " ">>,
                  <<"(", "Send", ")", " ", "+", " ">>}

\* Bounds after the Future bound.
BoundSuffixes == {<<" ", "+", " ", "Send", " ", "+", " ", "Sync">>, <<" ", "+", " ", "Debug">>,
                  <<" ", "+", " ", "'a">>}

ImplTypes ==
    {<<"impl", " ", "'a">>}
    \cup {<<"impl", " ", p>> \o a : p \in FuturePaths, a \in ArgForms}
    \cup {<<"impl", " ">> \o pre \o <<p>> \o a : pre \in BoundPrefixes, p \in FuturePaths, a \in OutputArgs}
    \cup {<<"impl", " ", p>> \o a \o suf : p \in FuturePaths, a \in OutputArgs, suf \in BoundSuffixes}
    \cup {<<"impl", " ", "'a", " ", "+", " ", "Future">> \o a \o <<" ", "+", " ", "Send">> : a \in OutputArgs}

SmallTypes == {<<"usize">>, <<"(", ")">>,
               <<"impl", " ", "Future", "<", "Output", " ", "=", " ", "(", ")", ">">>,
               <<"impl", " ", "Future", "<", "Output", " ", "=", " ", "usize", ">">>,
               <<"impl", " ", "core::future::Future", "<", "Output", " ", "=", " ", "usize", ">",
                 " ", "+", " ", "Debug">>}

AllTypes == OutTypes \cup ImplTypes

Ret(ty) == <<"->", " ">> \o ty

Tails == {<<" ", "{}">>, <<";">>, <<" ", "where T: Sized", ";">>}

UseCore == <<"use core::future::Future;", "\n">>

LocalTrait == <<"trait Future { type Output; }", "\n">>

\* The items before the function, and whether the crate graph has core's Future.
Envs == {[items |-> <<>>, minicore |-> TRUE], [items |-> UseCore, minicore |-> TRUE],
         [items |-> LocalTrait, minicore |-> TRUE], [items |-> <<>>, minicore |-> FALSE]}

File(env, fn) == [text |-> env.items \o fn \o <<"\n">>, minicore |-> env.minicore]

\* Every combination of qualifiers, with a few return types.
InputsByQualifiers ==
    {File(env, q \o Core0 \o gr \o tl) :
        env \in {[items |-> <<>>, minicore |-> TRUE], [items |-> UseCore, minicore |-> TRUE]},
        q \in QualsAll,
        gr \in {<<>>} \cup {<<" ">> \o Ret(ty) : ty \in SmallTypes},
        tl \in {<<" ", "{}">>}}

\* Every return type, with a few qualifiers.
InputsByReturnType ==
    {File(env, q \o Core0 \o <<" ">> \o Ret(ty) \o <<";">>) :
        env \in Envs, q \in QualsFew, ty \in AllTypes}

\* Every layout around the return type, with a few qualifiers and return types.
InputsByLayout ==
    {File(env, q \o c \o gr \o tl) :
        env \in {[items |-> UseCore, minicore |-> TRUE]},
        q \in {<<>>, <<"pub(crate)", " ">>, <<"async", " ">>},
        c \in CoreForms,
        gr \in {<<>>, <<"/*c*/">>, <<" ", "->">>} \cup {g \o Ret(ty) : g \in Gaps, ty \in SmallTypes},
        tl \in Tails}

\* Functions whose parameter list is not closed.
InputsUnclosed ==
    {File(env, q \o CoreUnclosed \o gr \o <<";">>) :
        env \in {[items |-> UseCore, minicore |-> TRUE]},
        q \in {<<>>, <<"async", " ">>},
        gr \in {<<>>, <<" ">> \o Ret(<<"usize">>),
                <<" ">> \o Ret(<<"impl", " ", "Future", "<", "Output", " ", "=", " ", "usize", ">">>)}}

Inputs == InputsByQualifiers \cup InputsByReturnType \cup InputsByLayout \cup InputsUnclosed

\* ------------------------------------------------------------------------
\* The state machine: a buffer on which the assists are invoked in any order.

VARIABLES text, minicore, hist

vars == <<text, minicore, hist>>

Init ==
    /\ \E f \in Inputs : text = f.text /\ minicore = f.minicore
    /\ hist = <<>>

\* One invocation: the plan, if there is one, is applied to the buffer.
Invoke(name, plan) ==
    /\ Len(hist) < MaxOps
    /\ text' = IF plan.ok THEN ApplyPlan(text, plan.edits) ELSE text
    /\ hist' = Append(hist, [op |-> name, ok |-> plan.ok, before |-> text, edits |-> plan.edits])
    /\ UNCHANGED minicore

Sugar == Invoke("sugar", sugar_impl_future_into_async(text, minicore))

Desugar == Invoke("desugar", desugar_async_into_impl_future(text))

Next == Sugar \/ Desugar

Spec == Init /\ [][Next]_vars

\* ------------------------------------------------------------------------
\* Vocabulary of the properties.

\* The last invocation, and the one before it.
Last == hist[Len(hist)]

Prior == hist[Len(hist) - 1]

Invoked(name) == hist # <<>> /\ Last.op = name

Applied(name) == Invoked(name) /\ Last.ok

\* First one assist was applied, then the other was invoked on its result.
AppliedThenInvoked(first, second) ==
    Len(hist) >= 2 /\ Prior.op = first /\ Prior.ok /\ Last.op = second

TextOf(t, r) == IF Has(r) THEN Slice(t, r.s, r.e) ELSE <<>>

NoArg == [k |-> "none", name |-> "", ty |-> None]

\* The parts of the function of buffer t that the properties speak of: the
\* children, the qualifiers, the return-type clause and its type, the first
\* bound of an impl-trait return type that is a path type (main), the generic
\* arguments of that bound and the first of them.
View(t) ==
    LET ch == Children(t)
        ret == Child(ch, "RET_TYPE")
        ty == RetTy(t, ret)
        bs == IF Has(ty) /\ At(t, ty.s) = "impl" THEN Bounds(t, ty.s) ELSE <<>>
        idx == {i \in 1..Len(bs) : bs[i].k = "path"}
        i0 == CHOOSE i \in idx : \A j \in idx : i <= j
        main == IF idx = {} THEN None ELSE Rng(bs[i0].s, bs[i0].e)
        gal == IF Has(main) THEN GenericArgList(t, main) ELSE None
        args == IF Has(gal) THEN GenericArgs(t, gal) ELSE <<>>
        pl == Child(ch, "PARAM_LIST")
    IN  [ch |-> ch, fn |-> FnRange(t), vis |-> Child(ch, "VISIBILITY"),
         const |-> Child(ch, "CONST_KW"), async |-> Child(ch, "ASYNC_KW"),
         fnkw |-> Child(ch, "FN_KW"), pl |-> pl, rparen |-> RParen(t, pl),
         ret |-> ret, ty |-> ty, impl |-> Has(ty) /\ At(t, ty.s) = "impl",
         bounds |-> bs, main |-> main, path |-> IF Has(main) THEN At(t, main.s) ELSE "",
         gal |-> gal, args |-> args, arg1 |-> IF args = <<>> THEN NoArg ELSE args[1]]

\* The main bound resolves to the core Future trait of the crate.
MainIsCoreFuture(t, v, mc) ==
    Has(v.main) /\ mc /\ resolve_trait(t, mc, v.path) = CoreFuture

\* The function is one to sugar: no async, no const, impl-trait return type whose
\* main bound is the core Future with a binding with a type as first argument.
Sugarable(t, v, mc) ==
    /\ ~Has(v.async)
    /\ ~Has(v.const)
    /\ MainIsCoreFuture(t, v, mc)
    /\ v.arg1.k = "ASSOC_TYPE_ARG"
    /\ Has(v.arg1.ty)

\* The function is one to desugar: async, `)` found, a return type clause has a type.
Desugarable(v) ==
    /\ Has(v.async)
    /\ Has(v.rparen)
    /\ Has(v.ret) => Has(v.ty)

\* ------------------------------------------------------------------------
\* C1: sugaring a function without async and const whose impl-trait return type
\* has the core Future as first path bound, with a binding of type T as first
\* argument, gives an async function without return-type clause when T is `()`
\* and with the verbatim text of T as return type otherwise.
C1_SugarResult ==
    Invoked("sugar") =>
        LET b == View(Last.before)
            a == View(text)
        IN  Sugarable(Last.before, b, minicore) =>
                /\ Last.ok
                /\ Has(a.async)
                /\ IF IsEmptyTuple(Last.before, b.arg1.ty)
                   THEN ~Has(a.ret)
                   ELSE Has(a.ret) /\ TextOf(text, a.ty) = TextOf(Last.before, b.arg1.ty)

\* A parenthesised output type was sugared and is the return type as written.
C1_Witness ==
    /\ Applied("sugar")
    /\ Sugarable(Last.before, View(Last.before), minicore)
    /\ TextOf(Last.before, View(Last.before).arg1.ty) = <<"(", "usize", ")">>
    /\ TextOf(text, View(text).ty) = <<"(", "usize", ")">>

\* ------------------------------------------------------------------------
\* C2: desugaring removes the async token and the whitespace token right after
\* it, and the return type T becomes `impl Future<Output = T>`; without a
\* return-type clause ` -> impl Future<Output = ()>` is put right after `)`.

\* The text the desugaring of t is to give, b being the view of t.
DesugaredText(t, b) ==
    LET cut == SkipWs(t, b.async.e)
    IN  IF Has(b.ret)
        THEN Slice(t, 0, b.async.s) \o Slice(t, cut, b.ty.s)
             \o <<"impl", " ", "Future", "<", "Output", " ", "=", " ">> \o TextOf(t, b.ty) \o <<">">>
             \o Slice(t, b.ty.e, Len(t))
        ELSE Slice(t, 0, b.async.s) \o Slice(t, cut, b.rparen.e)
             \o <<" ", "->", " ", "impl", " ", "Future", "<", "Output", " ", "=", " ", "(", ")", ">">>
             \o Slice(t, b.rparen.e, Len(t))

C2_DesugarResult ==
    Invoked("desugar") =>
        LET b == View(Last.before)
            a == View(text)
        IN  Desugarable(b) =>
                /\ Last.ok
                /\ ~Has(a.async)
                /\ text = DesugaredText(Last.before, b)
                /\ a.impl
                /\ Len(a.bounds) = 1
                /\ a.path = "Future"
                /\ Len(a.args) = 1
                /\ a.arg1.name = "Output"
                /\ TextOf(text, a.arg1.ty) = IF Has(b.ret) THEN TextOf(Last.before, b.ty)
                                             ELSE <<"(", ")">>

\* An async function without return type, with two blanks after async, was desugared.
C2_Witness ==
    /\ Applied("desugar")
    /\ ~Has(View(Last.before).ret)
    /\ SkipWs(Last.before, View(Last.before).async.e) = View(Last.before).async.e + 2
    /\ TextOf(text, View(text).arg1.ty) = <<"(", ")">>

\* ------------------------------------------------------------------------
\* C3: the sugar assist is not applicable when the main bound's path is
\* unresolved or resolves to another trait than the core Future of the crate,
\* whatever the path's text.
C3_IdentityNotName ==
    Invoked("sugar") =>
        LET b == View(Last.before)
        IN  (Has(b.main) /\ ~MainIsCoreFuture(Last.before, b, minicore)) => ~Last.ok

\* The sugar assist was invoked where `Future` names a local trait with an Output.
C3_Witness ==
    /\ Invoked("sugar")
    /\ ~Last.ok
    /\ HasItem(Last.before, "trait Future { type Output; }")
    /\ ~Has(View(Last.before).async)
    /\ ~Has(View(Last.before).const)
    /\ View(Last.before).path = "Future"
    /\ View(Last.before).arg1.name = "Output"
    /\ Has(View(Last.before).arg1.ty)

\* ------------------------------------------------------------------------
\* C4: desugar followed by sugar is applicable and gives back the text.

\* C4 as claimed: for every async function the desugar assist applies to.
C4_RoundTrip ==
    AppliedThenInvoked("desugar", "sugar") => (Last.ok /\ text = Prior.before)

\* The async keyword stands where the sugar assist puts it: first in the function
\* or one blank after the visibility, and one blank before what follows.
AsyncAsSugared(t, v) ==
    /\ \/ v.async.s = v.fn.s
       \/ Has(v.vis) /\ Slice(t, v.vis.e, v.async.s) = <<" ">>
    /\ At(t, v.async.e) = " "
    /\ ~IsWs(At(t, v.async.e + 1))

\* C4 as amended: desugar followed by sugar is applicable and gives back the
\* text when the async keyword stands as the sugar assist writes it, the return
\* type (if written) is not the empty tuple, and the name `Future` resolves to
\* the core Future trait where the function is.
C4_RoundTripAmended ==
    AppliedThenInvoked("desugar", "sugar") =>
        LET o == View(Prior.before)
        IN  (/\ AsyncAsSugared(Prior.before, o)
             /\ ~IsEmptyTuple(Prior.before, o.ty)
             /\ resolve_trait(Prior.before, minicore, "Future") = CoreFuture)
            => (Last.ok /\ text = Prior.before)

\* A public async unsafe function with a return type went there and back.
C4_Witness ==
    /\ AppliedThenInvoked("desugar", "sugar")
    /\ Last.ok
    /\ text = Prior.before
    /\ Has(View(text).vis)
    /\ Has(View(text).ty)
    /\ Has(Child(View(text).ch, "UNSAFE_KW"))

\* ------------------------------------------------------------------------
\* C5: the main bound is the first bound that is a path type (lifetimes and
\* other bounds are skipped), it alone is tested against the core Future, the
\* other bounds are not in the result, and sugar then desugar (of a function
\* whose parameter list is closed) gives `impl Future<Output = T>` without them
\* (an empty tuple T, however written, comes back as `()`).
C5_MainBound ==
    /\ Invoked("sugar") =>
        LET b == View(Last.before)
            a == View(text)
        IN  /\ Last.ok => MainIsCoreFuture(Last.before, b, minicore)
            /\ Sugarable(Last.before, b, minicore) => Last.ok
            /\ Last.ok =>
                /\ \A i \in 1..Len(a.ch) : a.ch[i].k # "ERROR"
                /\ TextOf(text, a.ty) = IF IsEmptyTuple(Last.before, b.arg1.ty) THEN <<>>
                                        ELSE TextOf(Last.before, b.arg1.ty)
                /\ Slice(text, Len(text) - (Len(Last.before) - b.ty.e), Len(text))
                     = Slice(Last.before, b.ty.e, Len(Last.before))
    /\ (AppliedThenInvoked("sugar", "desugar") /\ Has(View(Last.before).rparen)) =>
        LET o == View(Prior.before)
            a == View(text)
        IN  /\ Last.ok
            /\ TextOf(text, a.ty)
                 = <<"impl", " ", "Future", "<", "Output", " ", "=", " ">>
                   \o (IF IsEmptyTuple(Prior.before, o.arg1.ty) THEN <<"(", ")">>
                       ELSE TextOf(Prior.before, o.arg1.ty))
                   \o <<">">>
            /\ Len(o.bounds) > 1 => text # Prior.before

\* `impl 'a + Future<Output = T> + Send` was sugared and desugared again.
C5_Witness ==
    /\ AppliedThenInvoked("sugar", "desugar")
    /\ Last.ok
    /\ Len(View(Prior.before).bounds) = 3
    /\ View(Prior.before).bounds[1].k = "lifetime"
    /\ Len(View(text).bounds) = 1

\* ------------------------------------------------------------------------
\* C6: a sugar plan inserts async once: ` async` at the end of the visibility,
\* or `async ` at the start of the function; so async follows the visibility
\* and precedes unsafe and extern, and the other qualifiers stay as they were.

IsQualifier(el) == el.k \in {"VISIBILITY", "CONST_KW", "ASYNC_KW", "UNSAFE_KW", "ABI"}

IsNotAsync(el) == el.k # "ASYNC_KW"

RECURSIVE Kinds(_)
Kinds(els) == IF els = <<>> THEN <<>> ELSE <<Head(els).k>> \o Kinds(Tail(els))

Qualifiers(ch) == SelectSeq(ch, IsQualifier)

C6_AsyncPlacement ==
    Applied("sugar") =>
        LET b == View(Last.before)
            a == View(text)
            ins == {i \in 1..Len(Last.edits) : Last.edits[i].op = "insert"}
        IN  /\ Cardinality(ins) = 1
            /\ \A i \in ins :
                 IF Has(b.vis)
                 THEN Last.edits[i].s = b.vis.e /\ Last.edits[i].txt = <<" ", "async">>
                 ELSE Last.edits[i].s = b.fn.s /\ Last.edits[i].txt = <<"async", " ">>
            /\ Cardinality({i \in 1..Len(a.ch) : a.ch[i].k = "ASYNC_KW"}) = 1
            /\ Has(a.vis) => a.vis.e <= a.async.s
            /\ \A i \in 1..Len(a.ch) : a.ch[i].k \in {"UNSAFE_KW", "ABI"} => a.async.e <= a.ch[i].s
            /\ Kinds(SelectSeq(Qualifiers(a.ch), IsNotAsync)) = Kinds(Qualifiers(b.ch))

\* `pub(crate) unsafe fn` became `pub(crate) async unsafe fn`.
C6_Witness ==
    /\ Applied("sugar")
    /\ Kinds(Qualifiers(View(Last.before).ch)) = <<"VISIBILITY", "UNSAFE_KW">>
    /\ Kinds(Qualifiers(View(text).ch)) = <<"VISIBILITY", "ASYNC_KW", "UNSAFE_KW">>

\* ------------------------------------------------------------------------
\* C7: every edit of a sugar or desugar plan lies in the function, among the
\* qualifiers (before `fn`) or at the return-type position (from the end of the
\* parameter list to the end of the return-type clause); the text before the
\* function, from `fn` to the end of the parameter list, and after the
\* return-type position (where clause, body, `;`) is unchanged.

\* End of the return-type position of the function viewed by v.
RetPositionEnd(v) == IF Has(v.ret) THEN v.ret.e ELSE v.pl.e

C7_SignatureOnly ==
    (Applied("sugar") \/ Applied("desugar")) =>
        LET b == View(Last.before)
            a == View(text)
            tail == Slice(Last.before, RetPositionEnd(b), Len(Last.before))
        IN  /\ \A i \in 1..Len(Last.edits) :
                 LET ed == Last.edits[i]
                 IN  /\ b.fn.s <= ed.s /\ ed.s <= ed.e /\ ed.e <= b.fn.e
                     /\ \/ ed.e <= b.fnkw.s
                        \/ b.pl.e <= ed.s /\ ed.e <= RetPositionEnd(b)
            /\ Slice(text, 0, a.fn.s) = Slice(Last.before, 0, b.fn.s)
            /\ Slice(text, a.fnkw.s, a.pl.e) = Slice(Last.before, b.fnkw.s, b.pl.e)
            /\ Slice(text, Len(text) - Len(tail), Len(text)) = tail

\* A function with generic parameters, a parameter and a where clause was desugared.
C7_Witness ==
    /\ Applied("desugar")
    /\ Has(Child(View(Last.before).ch, "GENERIC_PARAM_LIST"))
    /\ Has(Child(View(Last.before).ch, "WHERE_CLAUSE"))
    /\ Has(Child(View(text).ch, "WHERE_CLAUSE"))
    /\ ~Has(View(Last.before).ret)

\* ------------------------------------------------------------------------
\* C8: no sugar plan for a function with async or const, no desugar plan for a
\* function without async, and never a plan of both assists for one function.
C8_QualifierGate ==
    /\ Invoked("sugar") =>
         ((Has(View(Last.before).async) \/ Has(View(Last.before).const)) => ~Last.ok)
    /\ Invoked("desugar") => (~Has(View(Last.before).async) => ~Last.ok)
    /\ ~(sugar_impl_future_into_async(text, minicore).ok
         /\ desugar_async_into_impl_future(text).ok)

\* The sugar assist was invoked on a const function that returns the core Future.
C8_Witness ==
    /\ Invoked("sugar")
    /\ ~Last.ok
    /\ Has(View(Last.before).const)
    /\ ~Has(View(Last.before).async)
    /\ MainIsCoreFuture(Last.before, View(Last.before), minicore)
    /\ Has(View(Last.before).arg1.ty)

\* ------------------------------------------------------------------------
\* C9: a sugar plan needs the first generic argument of the main bound to be
\* a binding with a type.

\* C9 as claimed: the first argument is the binding of Output.
C9_OutputBinding ==
    Applied("sugar") =>
        LET b == View(Last.before)
        IN  b.arg1.k = "ASSOC_TYPE_ARG" /\ b.arg1.name = "Output" /\ Has(b.arg1.ty)

\* C9 as amended: a sugar plan is made only if the main bound has a generic
\* argument list whose first argument is an associated-type binding, of
\* whatever name, with a type: none without a list, with an empty list, with
\* another kind of first argument, or with a binding without type.
C9_FirstArgIsBinding ==
    Applied("sugar") =>
        LET b == View(Last.before)
        IN  /\ Has(b.gal)
            /\ b.args # <<>>
            /\ b.arg1.k = "ASSOC_TYPE_ARG"
            /\ Has(b.arg1.ty)

\* No plan for `impl Future<usize, Output = usize>`: the binding comes second.
C9_Witness ==
    /\ Invoked("sugar")
    /\ ~Last.ok
    /\ ~Has(View(Last.before).async)
    /\ ~Has(View(Last.before).const)
    /\ MainIsCoreFuture(Last.before, View(Last.before), minicore)
    /\ Len(View(Last.before).args) = 2
    /\ View(Last.before).arg1.k = "TYPE_ARG"
    /\ View(Last.before).args[2].k = "ASSOC_TYPE_ARG"
    /\ View(Last.before).args[2].name = "Output"

\* ------------------------------------------------------------------------
\* C10: for the empty tuple the deletion of a sugar plan covers the
\* return-type clause and at most the whitespace token that follows the
\* parameter list; nothing that is not whitespace is removed with it.

Overlaps(el, ed) == el.s < ed.e /\ ed.s < el.e

C10_DeletesOnlyWhitespace ==
    Applied("sugar") =>
        LET b == View(Last.before)
        IN  \A i \in 1..Len(Last.edits) :
              Last.edits[i].op = "delete" =>
                /\ Last.edits[i].e = b.ret.e
                /\ \A j \in 1..Len(b.ch) :
                     Overlaps(b.ch[j], Last.edits[i]) =>
                        \/ b.ch[j].k = "RET_TYPE"
                        \/ b.ch[j].k = "WHITESPACE" /\ b.ch[j].s = b.pl.e

====
